---------------------------- MODULE Spec2Model ----------------------------
(*
  Model of hdfs/ext/avro/__init__.py: the sync-lookback adapter
  (_SeekableReader), the lazy multi-part reader (AvroReader) and the
  coroutine-driven writer (AvroWriter).

  Bytes are naturals in 0..255 and byte strings are sequences of them.
  Python's None is the string "None" where a schema is expected; for the
  adapter's _buffer, which the code only ever tests for truthiness, None and
  the empty byte string are both the empty sequence.
*)
EXTENDS Integers, Sequences, FiniteSets, TLC

VARIABLES
  \* ---- adapter harness: one _SeekableReader beside a true random-access file
  stream,     \* bytes of the underlying forward-only source
  seekable,   \* the _SeekableReader: [_reader, _size, _buffer, _saught]
  sk_out,     \* outcome of the last adapter call: [op, chunk, raised], with
              \* the most recent read's size and branch [n, forward] and,
              \* after a seek, its arguments [offset, whence]
  ref,        \* the random-access file over the same bytes: [pos, chunk, raised]
  pattern,    \* [last, ok, refused]: the last call, whether the calls so far
              \* follow the decoder's access pattern, and whether the adapter
              \* has refused one (AssertionError)
  \* ---- AvroWriter
  writer,     \* attributes: [_schema, _sync_interval, _sync_marker, _writer]
  co,         \* locals of the _write coroutine: [buf, n_records, n_block_records, schema]
  fo,         \* the sink returned by client.write: [state, calls, exits]
  accepted,   \* records a write call took without raising
  w_out,      \* the writer calls so far: [op, raised, writes, closes, failed,
              \* entered, schema_arg]
  \* ---- remote storage and AvroReader
  hdfs,       \* the files under hdfs_path: [files, directoryCount, parts], and
              \* what their writers were given: [written, cut]
  reader,     \* attributes: [content, _schema, _paths]
  gen,        \* the _reader generator held in self.records
  client,     \* sequence of <<"open" | "release", path>> calls on the client
  yielded,    \* what iteration handed to the caller, in order
  r_out,      \* the reader calls so far: [op, raised, enters, closes]
  \* ---- infer_schema
  infer_in,   \* the dictionary given: its values, in the order items() gives
  infer_out   \* the call's outcome: [done, raised, fields, maxint_bits]

adapterVars == <<stream, seekable, sk_out, ref, pattern>>
writerVars  == <<writer, co, fo, accepted, w_out>>
readerVars  == <<hdfs, reader, gen, client, yielded, r_out>>
inferVars   == <<infer_in, infer_out>>
vars        == <<adapterVars, writerVars, readerVars, inferVars>>

None == "None"

(* ------------------------------ bounds -------------------------------- *)
MaxStream  == 18   \* longest byte stream under the adapter harness
MaxRead    == 17   \* largest read size the harness asks for
MaxRecords == 3    \* most write calls in one writer session
MaxPartRecords == 2 \* most records in one part-file of a directory
MaxCloses  == 2    \* most __exit__ calls on one writer or reader
MaxEnters  == 2    \* most __enter__ calls on one reader
MaxFields  == 2    \* most items in a dictionary given to infer_schema

(* ------------------------- program constants -------------------------- *)
sync_size == 16    \* _SeekableReader.sync_size
SYNC_SIZE == 16    \* fastavro._writer.SYNC_SIZE
SEEK_CUR  == 1     \* os.SEEK_CUR
SEEK_SET  == SEEK_CUR - 1

(* ------------------------- byte-string helpers ------------------------ *)
Min(a, b) == IF a < b THEN a ELSE b

\* Python's b[:n] for n >= 0
Take(b, n) == SubSeq(b, 1, Min(n, Len(b)))

\* Python's b[n:] for n >= 0
Drop(b, n) == SubSeq(b, Min(n, Len(b)) + 1, Len(b))

\* reader.read(n) on a forward-only source at offset pos: at most n bytes,
\* fewer at the end of the input
ForwardRead(data, pos, n) == SubSeq(data, pos + 1, Min(pos + n, Len(data)))

(* --------------------------- _SeekableReader -------------------------- *)
\* __init__(reader, size=None)
SeekableReader(size) ==
  [_reader  |-> 0,
   _size    |-> IF size = 0 THEN sync_size ELSE size,
   _buffer  |-> <<>>,
   _saught  |-> FALSE]

\* read as it would be if the replay never topped up from the source
SeekableRead_NoTopUp(data, s, nbytes) ==
  LET buf == s._buffer IN
  IF s._saught
  THEN IF buf = <<>>
       THEN [chunk |-> <<>>, next |-> s, raised |-> TRUE]
       ELSE IF nbytes - Len(buf) < 0
            THEN [chunk  |-> Take(buf, nbytes),
                  next   |-> [s EXCEPT !._buffer = Drop(buf, nbytes)],
                  raised |-> FALSE]
            ELSE [chunk  |-> buf,
                  next   |-> [s EXCEPT !._buffer = <<>>, !._saught = FALSE],
                  raised |-> FALSE]
  ELSE LET chunk == ForwardRead(data, s._reader, nbytes) IN
       [chunk  |-> chunk,
        next   |-> [s EXCEPT !._reader = @ + Len(chunk),
                             !._buffer = IF nbytes = s._size THEN chunk ELSE <<>>],
        raised |-> FALSE]

\* read(nbytes): the chunk returned, the adapter afterwards, and whether the
\* assertion of the replay branch failed
SeekableRead(data, s, nbytes) ==
  LET buf == s._buffer IN
  IF s._saught
  THEN IF buf = <<>>
       THEN [chunk |-> <<>>, next |-> s, raised |-> TRUE]
       ELSE LET missing_bytes == nbytes - Len(buf) IN
            IF missing_bytes < 0
            THEN [chunk  |-> Take(buf, nbytes),
                  next   |-> [s EXCEPT !._buffer = Drop(buf, nbytes)],
                  raised |-> FALSE]
            ELSE LET more == IF missing_bytes # 0
                             THEN ForwardRead(data, s._reader, missing_bytes)
                             ELSE <<>>
                 IN [chunk  |-> buf \o more,
                     next   |-> [s EXCEPT !._reader = @ + Len(more),
                                          !._buffer = <<>>,
                                          !._saught = FALSE],
                     raised |-> FALSE]
  ELSE LET chunk == ForwardRead(data, s._reader, nbytes) IN
       [chunk  |-> chunk,
        next   |-> [s EXCEPT !._reader = @ + Len(chunk),
                             !._buffer = IF nbytes = s._size THEN chunk ELSE <<>>],
        raised |-> FALSE]

\* seek as it would be without `assert self._buffer`
SeekableSeek_NoBufferCheck(s, offset, whence) ==
  IF offset = 0 - s._size /\ whence = SEEK_CUR
  THEN [next |-> [s EXCEPT !._saught = TRUE], raised |-> FALSE]
  ELSE [next |-> s, raised |-> TRUE]

\* seek(offset, whence): three assertions, then the un-read is pending
SeekableSeek(s, offset, whence) ==
  IF offset = 0 - s._size /\ whence = SEEK_CUR /\ s._buffer # <<>>
  THEN [next |-> [s EXCEPT !._saught = TRUE], raised |-> FALSE]
  ELSE [next |-> s, raised |-> TRUE]

(* ----------------- a true random-access source (reference) ------------ *)
\* file.read(n)
RandomRead(data, r, n) ==
  LET chunk == ForwardRead(data, r.pos, n) IN
  [pos |-> r.pos + Len(chunk), chunk |-> chunk, raised |-> r.raised]

\* file.seek(offset, whence); a position before the start is refused
RandomSeek(r, offset, whence) ==
  LET target == IF whence = SEEK_CUR THEN r.pos + offset ELSE offset IN
  IF target < 0
  THEN [r EXCEPT !.raised = TRUE]
  ELSE [r EXCEPT !.pos = target]

(* ------------------- the container encoding (fastavro) ---------------- *)
\* The codec is the default one, 'null' (AvroWriter.__init__: codec or 'null').
Schemas    == {"S1", "S2"}      \* record schemas with a single long field
\* field values, encoded in one, two and five bytes
RecordVals == {0 - 1, 64, 536870912}
MAGIC      == <<79, 98, 106, 1>>
MarkerA    == [i \in 1..SYNC_SIZE |-> 255]
MarkerB    == [i \in 1..SYNC_SIZE |-> 2 * i - 1]
Markers    == {MarkerA, MarkerB} \* caller-supplied, or drawn by os.urandom

\* (n << 1) ^ (n >> 63)
ZigZag(n) == IF n >= 0 THEN 2 * n ELSE (0 - 2 * n) - 1

RECURSIVE Varint(_)
Varint(z) == IF z < 128 THEN <<z>> ELSE <<128 + (z % 128)>> \o Varint(z \div 128)

\* fastavro write_long: the bytes it writes for n
write_long(n) == Varint(ZigZag(n))

\* dumps(schema), as bytes
SchemaJson(schema) ==
  CASE schema = "S1" -> <<83, 49>>
    [] schema = "S2" -> <<83, 50>>
    [] OTHER         -> <<110, 117, 108, 108>>   \* dumps(None) = "null"

\* fastavro write_header: magic, metadata (the schema's JSON, length-prefixed),
\* then the sync marker
write_header(schema, sync_marker) ==
  MAGIC \o write_long(Len(SchemaJson(schema))) \o SchemaJson(schema) \o sync_marker

\* BLOCK_WRITERS['null']: the payload's length, then the payload
block_writer(block_bytes) == write_long(Len(block_bytes)) \o block_bytes

\* write_data(buf, record, schema) for a record the schema can encode
write_data(record) == write_long(record)

(* ------------------------------ the sink ------------------------------ *)
\* one call on the sink: what the writer called, and the bytes it passed
Call(name, bytes) == [call |-> name, bytes |-> bytes]

RECURSIVE Concat(_)
Concat(calls) ==
  IF calls = <<>> THEN <<>> ELSE Head(calls).bytes \o Concat(Tail(calls))

\* the bytes the sink holds
SinkData(f) == Concat(f.calls)

(* ------------------------------ AvroWriter ---------------------------- *)
IntervalArgs == {0, 2, 3}   \* sync_interval argument; 0 stands for None

\* __init__(client, hdfs_path, schema, codec, sync_interval, sync_marker)
AvroWriterInit(schema, sync_interval, sync_marker) ==
  [_schema        |-> schema,
   _sync_interval |-> IF sync_interval = 0 THEN 1000 * SYNC_SIZE ELSE sync_interval,
   _sync_marker   |-> sync_marker,
   _writer        |-> None]

\* the locals of _write before the coroutine is primed
CoInit == [buf |-> <<>>, n_records |-> 0, n_block_records |-> 0, schema |-> None]

\* dump_header(): the sink after it
dump_header(w, f) ==
  [f EXCEPT !.calls = Append(@, Call("write_header",
                                     write_header(w._schema, w._sync_marker)))]

\* dump_data as it would be if it drew a fresh marker for every block
dump_data_FreshMarker(w, c, f) ==
  [fo |-> [f EXCEPT !.calls = @ \o <<Call("write_long", write_long(c.n_block_records)),
                                     Call("block_writer", block_writer(c.buf)),
                                     Call("write", IF w._sync_marker = MarkerA
                                                   THEN MarkerB ELSE MarkerA)>>],
   co |-> [c EXCEPT !.buf = <<>>]]

\* dump_data(): record count, block, sync marker; then buf.truncate(0)
dump_data(w, c, f) ==
  [fo |-> [f EXCEPT !.calls = @ \o <<Call("write_long", write_long(c.n_block_records)),
                                     Call("block_writer", block_writer(c.buf)),
                                     Call("write", w._sync_marker)>>],
   co |-> [c EXCEPT !.buf = <<>>]]

\* the flush test as it would be with > for >=
ReachedInterval_Strict(c, sync_interval) == Len(c.buf) > sync_interval

\* the flush test of the write loop: buf.tell() >= sync_interval
ReachedInterval(c, sync_interval) == Len(c.buf) >= sync_interval

\* the header test as it would be without `if not self._schema`
HeaderDue_EveryFirst(w, c) == c.n_records = 0

\* whether the loop has to write the header: on the first record of a writer
\* that has no schema
HeaderDue(w, c) == c.n_records = 0 /\ w._schema = None

\* the loop as it would be if the block counter were not reset after a flush
WriteLoop_NoReset(w, c, f, record, fits) ==
  LET first == c.n_records = 0
      f1 == IF HeaderDue(w, c) THEN dump_header(w, f) ELSE f
      c1 == IF first THEN [c EXCEPT !.schema = w._schema] ELSE c
  IN IF c1.schema = None \/ ~fits
     THEN [writer |-> [w EXCEPT !._writer = "finished"], co |-> c1, fo |-> f1,
           raised |-> TRUE]
     ELSE LET c2 == [c1 EXCEPT !.buf = @ \o write_data(record),
                               !.n_block_records = @ + 1,
                               !.n_records = @ + 1]
          IN IF ReachedInterval(c2, w._sync_interval)
             THEN LET d == dump_data(w, c2, f1) IN
                  [writer |-> w, co |-> d.co, fo |-> d.fo, raised |-> FALSE]
             ELSE [writer |-> w, co |-> c2, fo |-> f1, raised |-> FALSE]

\* one turn of the loop of _write, from `record = (yield)` to the next yield.
\* fits: whether write_data can encode the record with the schema.
WriteLoop(w, c, f, record, fits) ==
  LET first == c.n_records = 0
      f1 == IF HeaderDue(w, c) THEN dump_header(w, f) ELSE f
      c1 == IF first THEN [c EXCEPT !.schema = w._schema] ELSE c
  IN IF c1.schema = None \/ ~fits
     THEN \* write_data raises: the exception ends the generator
          [writer |-> [w EXCEPT !._writer = "finished"], co |-> c1, fo |-> f1,
           raised |-> TRUE]
     ELSE LET c2 == [c1 EXCEPT !.buf = @ \o write_data(record),
                               !.n_block_records = @ + 1,
                               !.n_records = @ + 1]
          IN IF ReachedInterval(c2, w._sync_interval)
             THEN LET d == dump_data(w, c2, f1) IN
                  [writer |-> w, co |-> [d.co EXCEPT !.n_block_records = 0],
                   fo |-> d.fo, raised |-> FALSE]
             ELSE [writer |-> w, co |-> c2, fo |-> f1, raised |-> FALSE]

\* send as it would be if a generator that has ended took the record
GeneratorSend_Ended(w, c, f, record, fits) ==
  IF w._writer # None
  THEN WriteLoop(w, c, f, record, fits)
  ELSE [writer |-> w, co |-> c, fo |-> f, raised |-> TRUE]

\* generator.send(record) on self._writer
GeneratorSend(w, c, f, record, fits) ==
  IF w._writer = "suspended"
  THEN WriteLoop(w, c, f, record, fits)
  ELSE \* None has no send; a finished generator raises StopIteration
       [writer |-> w, co |-> c, fo |-> f, raised |-> TRUE]

\* the GeneratorExit handler of _write; fail names the sink call that raises
OnGeneratorExit(w, c, f, fail) ==
  IF c.buf # <<>> /\ fail = "dump_data"
  THEN [co |-> c, fo |-> f, raised |-> TRUE]
  ELSE LET d == IF c.buf # <<>> THEN dump_data(w, c, f) ELSE [fo |-> f, co |-> c] IN
       IF fail = "flush"
       THEN [co |-> d.co, fo |-> d.fo, raised |-> TRUE]
       ELSE [co |-> d.co,
             fo |-> [d.fo EXCEPT !.calls = Append(@, Call("flush", <<>>))],
             raised |-> FALSE]

\* generator.close() on self._writer
GeneratorClose(w, c, f, fail) ==
  IF w._writer = "suspended"
  THEN OnGeneratorExit(w, c, f, fail)
  ELSE [co |-> c, fo |-> f, raised |-> FALSE]

\* fo.__exit__(*exc_info): releases the sink and returns a false value
FoExit(f) == [f EXCEPT !.state = "released", !.exits = @ + 1]

(* ------------------- the container decoding (fastavro) ---------------- *)
\* (n >> 1) ^ -(n & 1)
UnZigZag(z) == IF z % 2 = 0 THEN z \div 2 ELSE 0 - ((z + 1) \div 2)

\* fastavro read_long on the adapter, byte by byte. st is "ok", "eof" (no
\* byte at all: StopIteration) or "error" (the input ends inside the number,
\* or the adapter's assertion fails).
RECURSIVE ReadVarint(_, _, _, _)

\* read_long once fo.read(1) has returned r
VarintByte(data, r, acc, mult) ==
  IF r.raised THEN [st |-> "error", val |-> 0, s |-> r.next]
  ELSE IF r.chunk = <<>>
       THEN [st |-> IF mult = 1 THEN "eof" ELSE "error", val |-> 0, s |-> r.next]
       ELSE IF r.chunk[1] < 128
            THEN [st |-> "ok", val |-> UnZigZag(acc + r.chunk[1] * mult), s |-> r.next]
            ELSE ReadVarint(data, r.next, acc + (r.chunk[1] % 128) * mult, mult * 128)

ReadVarint(data, s, acc, mult) == VarintByte(data, SeekableRead(data, s, 1), acc, mult)

read_long(data, s) == ReadVarint(data, s, 0, 1)

\* loads(metadata['avro.schema'])
SchemaOfJson(json) ==
  CASE json = <<83, 49>> -> "S1"
    [] json = <<83, 50>> -> "S2"
    [] json = <<110, 117, 108, 108>> -> None
    [] OTHER -> "invalid"

\* the header once its four reads have returned: the magic m, the length n
\* of the metadata, the metadata j and the sync marker k
HeaderRead(m, n, j, k) ==
  [st |-> IF /\ m.chunk = MAGIC
             /\ n.st = "ok"
             /\ SchemaOfJson(j.chunk) # "invalid"
             /\ Len(k.chunk) = SYNC_SIZE
          THEN "ok" ELSE "error",
   schema |-> SchemaOfJson(j.chunk), sync |-> k.chunk, s |-> k.next]

HeaderSync(data, m, n, j) == HeaderRead(m, n, j, SeekableRead(data, j.next, SYNC_SIZE))

HeaderMeta(data, m, n) ==
  HeaderSync(data, m, n,
             SeekableRead(data, n.s, IF n.st = "ok" /\ n.val >= 0 THEN n.val ELSE 0))

HeaderMagic(data, m) == HeaderMeta(data, m, read_long(data, m.next))

\* fastavro.reader(fo): decodes the header through the adapter. An input that
\* ends inside the header, or is no container, is an error.
FastavroReader(data, s) == HeaderMagic(data, SeekableRead(data, s, Len(MAGIC)))

\* skip_sync once fo.read(SYNC_SIZE) has returned mark
SyncRead(mark, sync_marker) ==
  IF mark.raised THEN [st |-> "error", s |-> mark.next]
  ELSE IF mark.chunk = <<>> THEN [st |-> "eof", s |-> mark.next]
  ELSE IF mark.chunk # sync_marker
       THEN LET k == SeekableSeek(mark.next, 0 - SYNC_SIZE, SEEK_CUR) IN
            [st |-> IF k.raised THEN "error" ELSE "ok", s |-> k.next]
       ELSE [st |-> "ok", s |-> mark.next]

\* fastavro skip_sync: read a marker's worth; nothing there ends the file, a
\* mismatch is un-read with seek(-SYNC_SIZE, SEEK_CUR)
skip_sync(data, s, sync_marker) ==
  SyncRead(SeekableRead(data, s, SYNC_SIZE), sync_marker)

\* the block loop of fastavro's record iterator, up to its next record:
\* st is "record" (val, and the records left in the block), "end" or "error".
\* A StopIteration raised by read_long anywhere in the loop ends the iteration.
RECURSIVE NextRecord(_, _, _, _)

\* a record of the current block, once read_long has returned r
RecordRead(r, remaining) ==
  [st |-> CASE r.st = "ok" -> "record" [] r.st = "eof" -> "end" [] OTHER -> "error",
   val |-> r.val, s |-> r.s, remaining |-> remaining - 1]

\* a block's head, once its record count and its length have been read
BlockRead(data, sync_marker, block_count, block_len) ==
  IF block_count.st = "ok" /\ block_len.st = "ok"
  THEN NextRecord(data, block_len.s, sync_marker, block_count.val)
  ELSE [st |-> IF "error" \in {block_count.st, block_len.st} THEN "error" ELSE "end",
        val |-> 0, s |-> block_len.s, remaining |-> 0]

BlockCounted(data, sync_marker, block_count) ==
  BlockRead(data, sync_marker, block_count, read_long(data, block_count.s))

\* the next block, once skip_sync has returned k
BlockStart(data, sync_marker, k) ==
  IF k.st # "ok"
  THEN [st |-> IF k.st = "eof" THEN "end" ELSE "error",
        val |-> 0, s |-> k.s, remaining |-> 0]
  ELSE BlockCounted(data, sync_marker, read_long(data, k.s))

NextRecord(data, s, sync_marker, remaining) ==
  IF remaining > 0
  THEN RecordRead(read_long(data, s), remaining)
  ELSE BlockStart(data, sync_marker, skip_sync(data, s, sync_marker))

(* ------------------------------ AvroReader ---------------------------- *)
\* What the generator yields and self._schema holds: a header's schema or a
\* record. Nothing is Python's None; a schema decoded from "null" is None too.
Sch(x)  == [is_schema |-> TRUE, schema |-> x, val |-> 0]
Rec(v)  == [is_schema |-> FALSE, schema |-> None, val |-> v]
Nothing == Sch(None)

\* Python truth of such a value (a record is a non-empty dictionary)
Truthy(x) == x.is_schema => x.schema # None

\* the generator before its first next()
GenInit == [state |-> "none", at |-> 0, s |-> SeekableReader(0),
            sync |-> <<>>, remaining |-> 0]

\* _reader(): the generator's code from where it stands to its next yield.
\* phase "open" is the head of `for path in self._paths`, with g.at parts
\* done; phase "records" is inside `for record in avro_reader`. ev collects
\* the client calls made; the `with` releases the source however it is left.
RECURSIVE Run(_, _, _, _, _, _)

\* inside `with self._client.read(path) as bytes_reader`, once
\* fastavro.reader has returned avro_reader (its state, or the error it raised)
WithSource(g, ev, files, paths, self_schema, avro_reader) ==
  LET path == paths[g.at + 1]
      ev1  == Append(ev, <<"open", path>>)
      g1   == [state |-> "suspended", at |-> g.at + 1, s |-> avro_reader.s,
               sync |-> avro_reader.sync, remaining |-> 0]
  IN IF avro_reader.st = "error"
     THEN [gen |-> [g1 EXCEPT !.state = "raised"], out |-> "raise",
           val |-> Nothing, ev |-> Append(ev1, <<"release", path>>)]
     ELSE IF ~Truthy(self_schema)
          THEN [gen |-> g1, out |-> "yield",
                val |-> Sch(avro_reader.schema), ev |-> ev1]
          ELSE Run(g1, "records", ev1, files, paths, self_schema)

\* the record loop as it would be if the end of a part left its source open
ForRecord_NoRelease(g, ev, files, paths, self_schema, r) ==
  LET path == paths[g.at]
      g1   == [g EXCEPT !.s = r.s, !.remaining = r.remaining]
  IN CASE r.st = "record" ->
            [gen |-> g1, out |-> "yield", val |-> Rec(r.val), ev |-> ev]
       [] r.st = "end" ->
            Run(g1, "open", ev, files, paths, self_schema)
       [] OTHER ->
            [gen |-> [g1 EXCEPT !.state = "raised"], out |-> "raise",
             val |-> Nothing, ev |-> Append(ev, <<"release", path>>)]

\* `for record in avro_reader`, once the iterator has answered with r
ForRecord(g, ev, files, paths, self_schema, r) ==
  LET path == paths[g.at]
      g1   == [g EXCEPT !.s = r.s, !.remaining = r.remaining]
  IN CASE r.st = "record" ->
            [gen |-> g1, out |-> "yield", val |-> Rec(r.val), ev |-> ev]
       [] r.st = "end" ->
            Run(g1, "open", Append(ev, <<"release", path>>),
                files, paths, self_schema)
       [] OTHER ->
            [gen |-> [g1 EXCEPT !.state = "raised"], out |-> "raise",
             val |-> Nothing, ev |-> Append(ev, <<"release", path>>)]

Run(g, phase, ev, files, paths, self_schema) ==
  IF phase = "open"
  THEN IF g.at = Len(paths)
       THEN [gen |-> [g EXCEPT !.state = "stopped"], out |-> "stop",
             val |-> Nothing, ev |-> ev]
       ELSE WithSource(g, ev, files, paths, self_schema,
                       FastavroReader(files[paths[g.at + 1]], SeekableReader(0)))
  ELSE ForRecord(g, ev, files, paths, self_schema,
                 NextRecord(files[paths[g.at]], g.s, g.sync, g.remaining))

\* generator.next(): a generator that has ended raises StopIteration
GeneratorNext(g, files, paths, self_schema) ==
  CASE g.state = "none" -> Run(g, "open", <<>>, files, paths, self_schema)
    [] g.state = "suspended" -> Run(g, "records", <<>>, files, paths, self_schema)
    [] OTHER -> [gen |-> g, out |-> "stop", val |-> Nothing, ev |-> <<>>]

\* close as it would be if leaving the `with` did not release the source
GeneratorCloseReader_NoRelease(g, paths) ==
  [gen |-> IF g.state \in {"none", "suspended"} THEN [g EXCEPT !.state = "closed"] ELSE g,
   ev |-> <<>>]

\* generator.close(): GeneratorExit at the yield leaves the `with`
GeneratorCloseReader(g, paths) ==
  IF g.state = "suspended"
  THEN [gen |-> [g EXCEPT !.state = "closed"], ev |-> <<<<"release", paths[g.at]>>>>]
  ELSE [gen |-> IF g.state = "none" THEN [g EXCEPT !.state = "closed"] ELSE g,
        ev |-> <<>>]

\* the schema property of AvroReader: `if not self._schema: raise HdfsError`
AvroReaderSchema(r) ==
  IF ~Truthy(r._schema)
  THEN [raised |-> TRUE, val |-> Nothing]
  ELSE [raised |-> FALSE, val |-> r._schema]

RECURSIVE Insert(_, _)
Insert(x, sorted) ==
  IF sorted = <<>> \/ x <= Head(sorted) THEN <<x>> \o sorted
  ELSE <<Head(sorted)>> \o Insert(x, Tail(sorted))

RECURSIVE Sorted(_)
Sorted(q) == IF q = <<>> THEN <<>> ELSE Insert(Head(q), Sorted(Tail(q)))

\* the paths as they would be if the reader sorted the part names
ReaderPaths_Sorted(h) == IF h.directoryCount # 0 THEN Sorted(h.parts) ELSE <<1>>

\* AvroReader.__init__: the paths to read, in the order client.parts gives
ReaderPaths(h) == IF h.directoryCount # 0 THEN h.parts ELSE <<1>>

(* ------------------------ _get_type, infer_schema --------------------- *)
\* Python objects given as field values. An integer is given by the bit
\* length of its magnitude: 5 has 3 bits, 2**31 - 1 has 31, 2**31 has 32 and
\* 2**40 has 41.
PyBool      == [type |-> "bool", bits |-> 1]
PyStr       == [type |-> "str", bits |-> 0]
PyFloat     == [type |-> "float", bits |-> 0]
PyNone      == [type |-> "NoneType", bits |-> 0]
PyInteger(bits) == [type |-> "integer", bits |-> bits]
IntegerBits == {3, 31, 32, 41}
PyValues    == {PyBool, PyStr, PyFloat, PyNone} \cup {PyInteger(b) : b \in IntegerBits}

\* the names the module binds at its top level, beside Python 2's builtins
ModuleGlobals ==
  {"HdfsError", "dumps", "fastavro", "io", "lg", "os", "psp", "sys", "_logger",
   "_get_type", "infer_schema", "_SeekableReader", "AvroReader", "AvroWriter"}
Builtins == {"isinstance", "bool", "int", "long", "float"}

\* whether evaluating a global name succeeds, or raises NameError
Bound(name) == name \in ModuleGlobals \cup Builtins

\* isinstance(obj, int): Python 2 keeps an integer as an int while it fits
\* the platform's C long (sys.maxint has maxint_bits bits), as a long beyond
IsInt(obj, maxint_bits)  == obj.type = "integer" /\ obj.bits <= maxint_bits
IsLong(obj, maxint_bits) == obj.type = "integer" /\ obj.bits > maxint_bits

\* _get_type(obj): the type name, or the exception the if-chain ends in
_get_type(obj, maxint_bits) ==
  IF obj.type = "bool" THEN [raised |-> "none", type |-> "boolean"]
  ELSE IF ~Bound("string_types") THEN [raised |-> "NameError", type |-> ""]
  ELSE IF obj.type = "str" THEN [raised |-> "none", type |-> "string"]
  ELSE IF IsInt(obj, maxint_bits) THEN [raised |-> "none", type |-> "int"]
  ELSE IF IsLong(obj, maxint_bits) THEN [raised |-> "none", type |-> "long"]
  ELSE IF obj.type = "float" THEN [raised |-> "none", type |-> "float"]
  ELSE [raised |-> "UnboundLocalError", type |-> ""]

\* infer_schema(obj): the fields of the record schema, one per item in the
\* order of obj.items(), or the first exception _get_type raises
infer_schema(obj, maxint_bits) ==
  LET types  == [i \in 1..Len(obj) |-> _get_type(obj[i], maxint_bits)]
      failed == {i \in 1..Len(obj) : types[i].raised # "none"}
  IN IF failed = {}
     THEN [raised |-> "none",
           fields |-> [i \in 1..Len(obj) |-> [name |-> i, type |-> types[i].type]]]
     ELSE [raised |-> types[CHOOSE i \in failed : \A j \in failed : i <= j].raised,
           fields |-> <<>>]

(* ======================= actions: adapter harness ===================== *)
ReadSizes   == {0, 1, 7, sync_size, MaxRead}
SeekOffsets == {0 - sync_size, 0 - 1}
Whences     == {SEEK_SET, SEEK_CUR}

\* no call made on the adapter yet
NoCall == [op |-> "none", chunk |-> <<>>, raised |-> FALSE,
           n |-> 0, forward |-> FALSE, offset |-> 0, whence |-> SEEK_SET]

AdapterIdle ==
  /\ stream = <<>>
  /\ seekable = SeekableReader(0)
  /\ sk_out = NoCall
  /\ ref = [pos |-> 0, chunk |-> <<>>, raised |-> FALSE]
  /\ pattern = [last |-> "none", ok |-> TRUE, refused |-> FALSE]

\* the random-access file once it is put away: it is driven beside the
\* adapter as long as the calls follow the decoder's pattern and neither of
\* the two has refused a call
Parted == [pos |-> 0, chunk |-> <<>>, raised |-> TRUE]

Beside(p, r) == IF p.ok /\ ~p.refused /\ ~r.raised THEN r ELSE Parted

\* caller: seekable.read(n), and the same read on the random-access file
SeekableReadCall ==
  \E n \in ReadSizes :
    LET r == SeekableRead(stream, seekable, n) IN
    /\ seekable' = r.next
    /\ sk_out' = [NoCall EXCEPT !.op = "read", !.chunk = r.chunk,
                                 !.raised = r.raised, !.n = n,
                                 !.forward = ~seekable._saught]
    /\ pattern' = [last |-> IF n = seekable._size THEN "read_size" ELSE "read",
                   ok   |-> pattern.ok /\ (pattern.last = "seek" => n <= seekable._size),
                   refused |-> pattern.refused \/ r.raised]
    /\ ref' = Beside(pattern', RandomRead(stream, ref, n))
    /\ UNCHANGED <<stream, writerVars, readerVars, inferVars>>

\* caller: seekable.seek(offset, whence), and the same seek on the file
SeekableSeekCall ==
  \E offset \in SeekOffsets, whence \in Whences :
    LET r == SeekableSeek(seekable, offset, whence) IN
    /\ seekable' = r.next
    /\ sk_out' = [sk_out EXCEPT !.op = "seek", !.raised = r.raised,
                                 !.offset = offset, !.whence = whence]
    /\ pattern' = [last |-> "seek",
                   ok   |-> /\ pattern.ok
                            /\ pattern.last = "read_size"
                            /\ offset = 0 - seekable._size
                            /\ whence = SEEK_CUR,
                   refused |-> pattern.refused \/ r.raised]
    /\ ref' = Beside(pattern', RandomSeek(ref, offset, whence))
    /\ UNCHANGED <<stream, writerVars, readerVars, inferVars>>

(* =========================== actions: AvroWriter ====================== *)
WriterIdle ==
  /\ writer = AvroWriterInit(None, 0, MarkerA)
  /\ co = CoInit
  /\ fo = [state |-> "new", calls |-> <<>>, exits |-> 0]
  /\ accepted = <<>>
  /\ w_out = [op |-> "none", raised |-> FALSE, writes |-> 0, closes |-> 0,
              failed |-> FALSE, entered |-> FALSE, schema_arg |-> None]

\* AvroWriter(client, hdfs_path, schema, sync_interval=, sync_marker=)
WriterNew ==
  /\ \E schema \in {"S1", None}, sync_interval \in IntervalArgs,
        sync_marker \in Markers :
       /\ writer = AvroWriterInit(schema, sync_interval, sync_marker)
       /\ w_out = [op |-> "none", raised |-> FALSE, writes |-> 0, closes |-> 0,
                   failed |-> FALSE, entered |-> FALSE, schema_arg |-> schema]
  /\ co = CoInit
  /\ fo = [state |-> "new", calls |-> <<>>, exits |-> 0]
  /\ accepted = <<>>

\* the file a released sink leaves under hdfs_path
Stored(f) ==
  [files |-> <<SinkData(f)>>, directoryCount |-> 0, parts |-> <<>>,
   written |-> <<>>, cut |-> 0]

\* AvroWriter.__enter__: open the sink, create and prime the coroutine.
\* io_ok: whether the sink takes the header.
Enter ==
  /\ writer._writer = None
  /\ \E io_ok \in (IF writer._schema = None THEN {TRUE} ELSE BOOLEAN) :
       LET opened == [fo EXCEPT !.state = "open"] IN
       IF io_ok
       THEN /\ fo' = IF writer._schema # None THEN dump_header(writer, opened)
                     ELSE opened
            /\ writer' = [writer EXCEPT !._writer = "suspended"]
            /\ w_out' = [w_out EXCEPT !.op = "__enter__", !.raised = FALSE,
                                      !.entered = TRUE]
            /\ UNCHANGED hdfs
       ELSE /\ fo' = FoExit(opened)
            /\ writer' = [writer EXCEPT !._writer = "finished"]
            /\ w_out' = [w_out EXCEPT !.op = "__enter__", !.raised = TRUE,
                                      !.failed = TRUE]
            /\ UNCHANGED hdfs
  /\ UNCHANGED <<co, accepted, adapterVars, inferVars, reader, gen, client, yielded, r_out>>

\* AvroWriter.write(record)
Write ==
  /\ w_out.writes < MaxRecords
  /\ \E record \in RecordVals, fits \in BOOLEAN :
       LET r == GeneratorSend(writer, co, fo, record, fits) IN
       /\ writer' = r.writer
       /\ co' = r.co
       /\ fo' = r.fo
       /\ accepted' = IF r.raised THEN accepted ELSE Append(accepted, record)
       /\ w_out' = [w_out EXCEPT !.op = "write", !.raised = r.raised,
                                 !.writes = @ + 1,
                                 !.failed = @ \/ r.raised]
  /\ UNCHANGED <<adapterVars, inferVars, readerVars>>

\* the sink calls that may fail while the coroutine is being closed
CloseFailures ==
  {"none"} \cup (IF writer._writer = "suspended" THEN {"flush"} ELSE {})
           \cup (IF writer._writer = "suspended" /\ co.buf # <<>>
                 THEN {"dump_data"} ELSE {})

\* AvroWriter.__exit__: close the coroutine, then release the sink
Exit ==
  /\ writer._writer # None
  /\ w_out.closes < MaxCloses
  /\ \E fail \in CloseFailures :
       LET r == GeneratorClose(writer, co, fo, fail) IN
       /\ writer' = [writer EXCEPT !._writer = "finished"]
       /\ co' = r.co
       /\ fo' = IF r.raised THEN r.fo ELSE FoExit(r.fo)
       /\ hdfs' = IF r.raised THEN hdfs ELSE Stored(fo')
       /\ w_out' = [w_out EXCEPT !.op = "__exit__", !.raised = r.raised,
                                 !.closes = @ + 1,
                                 !.failed = @ \/ r.raised]
  /\ UNCHANGED <<accepted, adapterVars, inferVars, reader, gen, client, yielded, r_out>>

(* =========================== actions: AvroReader ====================== *)
ReaderIdle ==
  /\ reader = [content |-> None, _schema |-> Nothing, _paths |-> <<>>]
  /\ gen = GenInit
  /\ client = <<>>
  /\ yielded = <<>>
  /\ r_out = [op |-> "none", raised |-> FALSE, enters |-> 0, closes |-> 0]

NoFiles == [files |-> <<>>, directoryCount |-> 0, parts |-> <<>>,
            written |-> <<>>, cut |-> 0]

\* AvroReader(client, hdfs_path)
ReaderNew ==
  /\ reader.content = None
  /\ hdfs.files # <<>>
  /\ reader' = [content |-> "content", _schema |-> Nothing,
                _paths |-> ReaderPaths(hdfs)]
  /\ r_out' = [r_out EXCEPT !.op = "__init__", !.raised = FALSE]
  /\ UNCHANGED <<hdfs, gen, client, yielded, adapterVars, inferVars, writerVars>>

\* AvroReader.__enter__: a new generator, primed with next()
ReaderEnter ==
  /\ reader.content # None
  /\ gen.state # "suspended"
  /\ LET r == GeneratorNext(GenInit, hdfs.files, reader._paths, reader._schema) IN
     /\ gen' = r.gen
     /\ client' = client \o r.ev
     /\ reader' = IF r.out = "yield" THEN [reader EXCEPT !._schema = r.val]
                  ELSE reader
     /\ r_out' = [r_out EXCEPT !.op = "__enter__", !.raised = r.out # "yield",
                               !.enters = @ + 1]
  /\ UNCHANGED <<hdfs, yielded, adapterVars, inferVars, writerVars>>

\* one step of `for record in reader`: next() on reader.records
ReaderNext ==
  /\ gen.state \notin {"none"}
  /\ ~(r_out.op = "next" /\ r_out.raised)
  /\ LET r == GeneratorNext(gen, hdfs.files, reader._paths, reader._schema) IN
     /\ gen' = r.gen
     /\ client' = client \o r.ev
     /\ yielded' = IF r.out = "yield" THEN Append(yielded, r.val) ELSE yielded
     /\ r_out' = [r_out EXCEPT !.op = "next", !.raised = r.out # "yield"]
  /\ UNCHANGED <<hdfs, reader, adapterVars, inferVars, writerVars>>

\* AvroReader.__exit__: self.records.close()
ReaderExit ==
  /\ r_out.enters > 0
  /\ LET r == GeneratorCloseReader(gen, reader._paths) IN
     /\ gen' = r.gen
     /\ client' = client \o r.ev
     /\ r_out' = [r_out EXCEPT !.op = "__exit__", !.raised = FALSE,
                               !.closes = @ + 1]
  /\ UNCHANGED <<hdfs, reader, yielded, adapterVars, inferVars, writerVars>>

(* ========================== actions: infer_schema ===================== *)
InferIdle ==
  /\ infer_in = <<>>
  /\ infer_out = [done |-> FALSE, raised |-> "none", fields |-> <<>>, maxint_bits |-> 0]

\* sys.maxint is 2**31 - 1 or 2**63 - 1, by the platform
MaxintBits == {31, 63}

\* caller: infer_schema(obj)
InferSchemaCall ==
  /\ ~infer_out.done
  /\ \E maxint_bits \in MaxintBits :
       LET r == infer_schema(infer_in, maxint_bits) IN
       infer_out' = [done |-> TRUE, raised |-> r.raised, fields |-> r.fields,
                     maxint_bits |-> maxint_bits]
  /\ UNCHANGED <<infer_in, adapterVars, writerVars, readerVars>>

(* ============================ specifications ========================== *)
\* One writer session on a single file, which a reader may then read back.
Init ==
  /\ AdapterIdle
  /\ WriterNew
  /\ ReaderIdle
  /\ InferIdle
  /\ hdfs = NoFiles

\* the reader is built once the writer's caller is done with the writer
WriterStep ==
  /\ reader.content = None
  /\ (Enter \/ Write \/ Exit)

\* ... and reads the file back right after the writer's __exit__
ReadBack ==
  /\ w_out.op = "__exit__"
  /\ ReaderNew

\* ... in one `with` block
ReadBackEnter ==
  /\ r_out.enters = 0
  /\ ReaderEnter

ReadBackExit ==
  /\ r_out.closes = 0
  /\ ReaderExit

Next ==
  \/ WriterStep
  \/ ReadBack
  \/ ReadBackEnter
  \/ ReaderNext
  \/ ReadBackExit

Spec == Init /\ [][Next]_vars

\* A reader over a directory of part-files, each written by a clean writer
\* session; one of them may have lost its tail.
PartInterval(p) == <<2, 4, 0>>[p]
PartMarker(p)   == IF p = 2 THEN MarkerB ELSE MarkerA
PartRecords(p, n) == [i \in 1..n |-> 100 * p + i]

RECURSIVE Session(_, _, _, _)
Session(w, c, f, records) ==
  IF records = <<>>
  THEN OnGeneratorExit(w, c, f, "none").fo
  ELSE LET r == WriteLoop(w, c, f, Head(records), TRUE) IN
       Session(r.writer, r.co, r.fo, Tail(records))

PartFile(p, schema, n, cut) ==
  LET w == [AvroWriterInit(schema, PartInterval(p), PartMarker(p))
              EXCEPT !._writer = "suspended"]
      f == dump_header(w, [state |-> "open", calls |-> <<>>, exits |-> 0])
      data == SinkData(Session(w, CoInit, f, PartRecords(p, n)))
  IN IF cut = p THEN Take(data, Len(data) - (SYNC_SIZE + 1)) ELSE data

PartOrders == {<<1>>, <<2, 1>>, <<1, 2, 3>>, <<3, 1, 2>>}

InitReader ==
  /\ AdapterIdle
  /\ WriterIdle
  /\ ReaderIdle
  /\ InferIdle
  /\ \E schemas \in [1..2 -> Schemas], sizes \in [1..2 -> 0..MaxPartRecords],
        cut \in 0..2, order \in PartOrders :
       hdfs = [files |-> [p \in 1..3 |->
                           IF p = 3 THEN PartFile(3, "S2", 1, cut)
                           ELSE PartFile(p, schemas[p], sizes[p], cut)],
               directoryCount |-> IF Len(order) = 1 THEN 0 ELSE 1,
               parts |-> order,
               written |-> [p \in 1..3 |->
                             IF p = 3
                             THEN [schema |-> "S2", records |-> PartRecords(3, 1)]
                             ELSE [schema |-> schemas[p],
                                   records |-> PartRecords(p, sizes[p])]],
               cut |-> cut]

BoundedEnter ==
  /\ r_out.enters < MaxEnters
  /\ ReaderEnter

BoundedExit ==
  /\ r_out.closes < MaxCloses
  /\ ReaderExit

NextReader ==
  \/ ReaderNew
  \/ BoundedEnter
  \/ ReaderNext
  \/ BoundedExit

SpecReader == InitReader /\ [][NextReader]_vars

\* One adapter over a byte stream, driven beside a random-access file.
InitAdapter ==
  /\ \E len \in 0..MaxStream : stream = [i \in 1..len |-> i]
  /\ seekable = SeekableReader(0)
  /\ sk_out = NoCall
  /\ ref = [pos |-> 0, chunk |-> <<>>, raised |-> FALSE]
  /\ pattern = [last |-> "none", ok |-> TRUE, refused |-> FALSE]
  /\ WriterIdle
  /\ ReaderIdle
  /\ InferIdle
  /\ hdfs = NoFiles

NextAdapter ==
  \/ SeekableReadCall
  \/ SeekableSeekCall

SpecAdapter == InitAdapter /\ [][NextAdapter]_vars

\* One call of infer_schema on a dictionary of scalar values.
RECURSIVE Dicts(_)
Dicts(n) ==
  IF n = 0 THEN {<<>>}
  ELSE Dicts(n - 1) \cup {Append(d, v) : d \in {x \in Dicts(n - 1) : Len(x) = n - 1},
                                         v \in PyValues}

InitInfer ==
  /\ AdapterIdle
  /\ WriterIdle
  /\ ReaderIdle
  /\ hdfs = NoFiles
  /\ infer_in \in Dicts(MaxFields)
  /\ infer_out = [done |-> FALSE, raised |-> "none", fields |-> <<>>, maxint_bits |-> 0]

NextInfer == InferSchemaCall

SpecInfer == InitInfer /\ [][NextInfer]_vars

(* ================================ claims ============================== *)
\* ---- what the sink received
CallsNamed(f, name) == {i \in 1..Len(f.calls) : f.calls[i].call = name}
HeaderCount(f) == Cardinality(CallsNamed(f, "write_header"))
BlockCount(f)  == Cardinality(CallsNamed(f, "write_long"))

RECURSIVE VarintValue(_)
VarintValue(bytes) ==
  IF bytes = <<>> THEN 0 ELSE (Head(bytes) % 128) + 128 * VarintValue(Tail(bytes))

RECURSIVE SumCounts(_)
SumCounts(calls) ==
  IF calls = <<>> THEN 0
  ELSE (IF Head(calls).call = "write_long"
        THEN UnZigZag(VarintValue(Head(calls).bytes)) ELSE 0) + SumCounts(Tail(calls))

\* the marker the file's header carries: its last SYNC_SIZE bytes
HeaderMarker(f) == Drop(f.calls[1].bytes, Len(f.calls[1].bytes) - SYNC_SIZE)

AsYielded(records) == [i \in 1..Len(records) |-> Rec(records[i])]

\* C1: a file written with a schema by a session in which no call failed,
\* read back to the end of the iteration, is read without an error and
\* yields exactly the records written, in the order written.
C1_RoundTrip ==
  (/\ w_out.schema_arg # None
   /\ ~w_out.failed
   /\ gen.state \in {"stopped", "raised"})
  => (/\ gen.state = "stopped"
      /\ Len(accepted) = w_out.writes
      /\ yielded = AsYielded(accepted))

C1_Witness ==
  /\ w_out.schema_arg # None
  /\ ~w_out.failed
  /\ gen.state = "stopped"
  /\ Len(yielded) >= 3
  /\ BlockCount(fo) >= 2

\* C2: while the calls follow the pattern (each seek(-16, SEEK_CUR) right after
\* a read(16), and followed by a read of at most 16 bytes) and neither the
\* adapter nor the random-access file has refused a call, every read of the
\* adapter returns the bytes the same read of the random-access file returns.
C2_AdapterFidelity ==
  (pattern.ok /\ ~pattern.refused /\ ~ref.raised /\ sk_out.op = "read")
  => sk_out.chunk = ref.chunk

\* ---- the directory as the client gave it
PartOrder == IF hdfs.directoryCount # 0 THEN hdfs.parts ELSE <<1>>

RECURSIVE ExpectedRecords(_)
ExpectedRecords(order) ==
  IF order = <<>> THEN <<>>
  ELSE AsYielded(hdfs.written[Head(order)].records) \o ExpectedRecords(Tail(order))

IsPrefix(a, b) == Len(a) <= Len(b) /\ a = SubSeq(b, 1, Len(a))

Damaged == \E i \in 1..Len(PartOrder) : PartOrder[i] = hdfs.cut

\* C3: in a reader's first `with` block over the parts p0, p1, p2 (in the
\* client's order), iteration yields records only, part by part in that order
\* (all of them when it runs to its end), and the schema held is p0's,
\* whatever the other headers say.
C3_MultiPartOrdering ==
  (r_out.enters = 1 /\ ~Damaged)
  => (/\ IsPrefix(yielded, ExpectedRecords(PartOrder))
      /\ gen.state # "raised"
      /\ gen.state = "stopped" => yielded = ExpectedRecords(PartOrder)
      /\ reader._schema = Sch(hdfs.written[PartOrder[1]].schema))

C3_Witness ==
  /\ r_out.enters = 1
  /\ hdfs.parts = <<3, 1, 2>>
  /\ hdfs.written[1].schema # hdfs.written[3].schema
  /\ gen.state = "stopped"
  /\ Len(yielded) >= 4
  /\ ~Damaged

\* C4 as claimed: a session that was entered and closed without any failure
\* leaves exactly one header in the file, ahead of everything else.
C4_ExactlyOneHeader ==
  (w_out.entered /\ w_out.closes > 0 /\ ~w_out.failed)
  => (HeaderCount(fo) = 1 /\ fo.calls[1].call = "write_header")

\* C4 as amended: at most one header ever reaches the sink, nothing precedes
\* it, and no block is written without it; an entered writer that was given a
\* schema has written exactly one, and a writer without a schema has written
\* none as long as write was never called.
C4_AtMostOneHeader ==
  /\ HeaderCount(fo) <= 1
  /\ \A i \in 1..Len(fo.calls) :
       fo.calls[i].call \in {"write_header", "write_long", "block_writer", "write"}
       => (fo.calls[1].call = "write_header" /\ (i > 1 => fo.calls[i].call # "write_header"))
  /\ (w_out.entered /\ w_out.schema_arg # None) => HeaderCount(fo) = 1
  /\ (w_out.schema_arg = None /\ w_out.writes = 0) => HeaderCount(fo) = 0

C4_Witness ==
  /\ w_out.schema_arg = None
  /\ w_out.entered
  /\ w_out.writes = 0
  /\ w_out.closes > 0
  /\ fo.state = "released"
  /\ HeaderCount(fo) = 0

\* C5: every block in the sink is a record count, then the payload, then the
\* 16-byte sync marker, and that marker is the one the file's header carries,
\* which is the writer's for the whole session.
C5_SyncFraming ==
  /\ \A i \in CallsNamed(fo, "write_long") :
       /\ i + 2 <= Len(fo.calls)
       /\ fo.calls[i + 1].call = "block_writer"
       /\ fo.calls[i + 2].call = "write"
       /\ fo.calls[1].call = "write_header"
       /\ fo.calls[i + 2].bytes = HeaderMarker(fo)
       /\ Len(fo.calls[i + 2].bytes) = SYNC_SIZE
  /\ \A i \in CallsNamed(fo, "write") :
       i > 2 /\ fo.calls[i - 2].call = "write_long"
  /\ \A i \in CallsNamed(fo, "block_writer") :
       i > 1 /\ fo.calls[i - 1].call = "write_long"
  /\ \A i \in CallsNamed(fo, "write_header") : HeaderMarker(fo) = writer._sync_marker

C5_Witness ==
  /\ BlockCount(fo) >= 2
  /\ fo.state = "released"
  /\ writer._sync_marker = MarkerB

\* C6: while the coroutine waits for the next record, the block buffer is
\* shorter than the flush threshold, it is empty exactly when the block
\* counter is zero, and the counts of the blocks in the sink plus the block
\* counter make up the records taken: a buffer that reached the threshold was
\* flushed, and the counter reset, within the write call.
C6_FlushOnThreshold ==
  writer._writer = "suspended"
  => (/\ Len(co.buf) < writer._sync_interval
      /\ (co.buf = <<>>) <=> (co.n_block_records = 0)
      /\ SumCounts(fo.calls) + co.n_block_records = co.n_records
      /\ co.n_records = Len(accepted))

C6_Witness ==
  /\ writer._writer = "suspended"
  /\ w_out.op = "write"
  /\ BlockCount(fo) >= 1
  /\ co.buf = <<>>
  /\ co.n_records >= 2

\* C7: after the first __exit__, when it returned without raising, the record
\* counts of the blocks in the sink add up to the number of records that write
\* accepted.
C7_NoRecordDropped ==
  (w_out.entered /\ w_out.op = "__exit__" /\ w_out.closes = 1 /\ ~w_out.raised)
  => SumCounts(fo.calls) = Len(accepted)

\* C8: once write has been called on an entered, still open writer that was
\* given no schema, the writer has a schema, the header is in the sink and the
\* coroutine is streaming.
C8_SchemaInferredOnFirstWrite ==
  (w_out.schema_arg = None /\ w_out.entered /\ w_out.closes = 0 /\ w_out.writes > 0)
  => (/\ writer._schema # None
      /\ HeaderCount(fo) = 1
      /\ writer._writer = "suspended")

\* C9: a write call made after __exit__ has been called raises and leaves the
\* sink, and the records accepted, as they were.
C9_WriteAfterClose ==
  [][(w_out.closes > 0 /\ w_out'.writes # w_out.writes)
     => (w_out'.raised /\ fo' = fo /\ accepted' = accepted)]_vars

C9_Witness ==
  /\ w_out.op = "write"
  /\ w_out.closes > 0
  /\ w_out.raised
  /\ fo.state = "released"

\* ---- the client's open sources
Opens(p)    == Cardinality({i \in 1..Len(client) : client[i] = <<"open", p>>})
Releases(p) == Cardinality({i \in 1..Len(client) : client[i] = <<"release", p>>})

\* C10: once AvroWriter.__exit__ has been called the sink has been released;
\* and a reader whose generator has ended (exhausted, closed or failed) holds
\* no open source.
C10_HandlesReleased ==
  /\ w_out.closes > 0 => fo.state = "released"
  /\ gen.state \in {"stopped", "closed", "raised"}
     => \A p \in 1..Len(hdfs.files) : Opens(p) = Releases(p)

\* C11: an __exit__ on a reader whose generator waits inside a part-file
\* releases that part's source, and only that, and closes the generator; and
\* a next() on the closed generator raises, opens nothing and yields nothing.
C11_CloseMidIteration ==
  [][/\ (r_out'.closes # r_out.closes /\ gen.state = "suspended")
        => (/\ client' = Append(client, <<"release", reader._paths[gen.at]>>)
            /\ gen'.state = "closed"
            /\ \A p \in 1..Len(hdfs.files) : Opens(p)' = Releases(p)')
     /\ (gen.state = "closed" /\ r_out'.op = "next")
        => (/\ r_out'.raised
            /\ client' = client
            /\ yielded' = yielded
            /\ gen'.state = "closed")]_vars

C11_Witness ==
  /\ gen.state = "closed"
  /\ r_out.op = "next"
  /\ r_out.raised
  /\ r_out.enters = 1
  /\ gen.at = 2
  /\ Len(reader._paths) = 3
  /\ Len(yielded) >= 2

\* C12: releasing happens exactly once however often a session is closed: in
\* a writer session without failure the sink is released at most once, and
\* once when __exit__ has been called; __exit__ on a reader does not raise,
\* and a reader entered once and closed (twice, or before its first record)
\* has released each source it opened, once.
C12_CloseIdempotent ==
  /\ ~w_out.failed => fo.exits <= 1
  /\ (w_out.closes > 0 /\ ~w_out.failed) => fo.exits = 1
  /\ r_out.op = "__exit__" => ~r_out.raised
  /\ (r_out.enters = 1 /\ r_out.closes > 0)
     => \A p \in 1..Len(hdfs.files) : Opens(p) = Releases(p) /\ Releases(p) <= 1

\* C13: read before the reader's first __enter__, the schema property raises;
\* read at any time after an __enter__ over undamaged parts (which succeeds),
\* it returns the schema of the first part's header.
C13_SchemaAvailability ==
  /\ (reader.content # None /\ r_out.enters = 0) => AvroReaderSchema(reader).raised
  /\ (r_out.enters > 0 /\ ~Damaged)
     => AvroReaderSchema(reader) =
          [raised |-> FALSE, val |-> Sch(hdfs.written[PartOrder[1]].schema)]

\* ---- the type the precedence of the claim gives a scalar value
IsScalar(v) == v.type \in {"bool", "str", "integer", "float"}

ClaimedType(v) ==
  CASE v.type = "bool"  -> "boolean"
    [] v.type = "str"   -> "string"
    [] v.type = "integer" /\ v.bits <= 31 -> "int"
    [] v.type = "integer" /\ v.bits > 31  -> "long"
    [] v.type = "float" -> "float"

\* C14: infer_schema on a dictionary of scalar values returns, without
\* raising, one field per item in the order of the items, typed boolean,
\* string, int (an integer within the signed 32-bit range), long (an integer
\* beyond it) or float.
C14_ScalarInference ==
  (infer_out.done /\ \A i \in 1..Len(infer_in) : IsScalar(infer_in[i]))
  => (/\ infer_out.raised = "none"
      /\ infer_out.fields =
           [i \in 1..Len(infer_in) |-> [name |-> i, type |-> ClaimedType(infer_in[i])]])

\* ---- the seek call a step makes
SeekStep  == sk_out'.op = "seek" /\ <<seekable, sk_out, pattern>>' # <<seekable, sk_out, pattern>>
ExactSeek == sk_out'.offset = 0 - seekable._size /\ sk_out'.whence = SEEK_CUR

\* the most recent read was a forward read of S bytes that returned data
CandidateRead == sk_out.n = seekable._size /\ sk_out.forward /\ sk_out.chunk # <<>>

\* C15: a seek whose offset is not exactly -S relative to the current
\* position, or that comes before any read or after a most recent read of a
\* size other than S, raises and leaves the adapter as it was; a well-formed
\* seek after a forward read of S bytes that returned data succeeds, and the
\* adapter then holds those bytes to be replayed.
C15_SeekBackPrecondition ==
  [][SeekStep
     => /\ (~ExactSeek \/ sk_out.n # seekable._size)
           => (sk_out'.raised /\ seekable' = seekable)
        /\ (ExactSeek /\ CandidateRead)
           => (/\ ~sk_out'.raised
               /\ seekable'._saught
               /\ seekable'._buffer = sk_out.chunk)]_vars

IsSuffix(a, b) == Len(a) <= Len(b) /\ a = SubSeq(b, Len(b) - Len(a) + 1, Len(b))

\* C16: whatever the sequence of __enter__, next and __exit__ calls on one
\* reader over undamaged parts, the schema held is the first part's header
\* schema, and an iteration that has run to its end has yielded, since its
\* __enter__, every record of every part.
C16_ReenterKeepsSchema ==
  (r_out.enters > 0 /\ ~Damaged)
  => (/\ reader._schema = Sch(hdfs.written[PartOrder[1]].schema)
      /\ gen.state = "stopped" => IsSuffix(ExpectedRecords(PartOrder), yielded))

\* ---- the blocks in the sink, and the records they should hold
BlockCountAt(f, i) == UnZigZag(VarintValue(f.calls[i].bytes))

RECURSIVE Encoded(_)
Encoded(records) ==
  IF records = <<>> THEN <<>> ELSE write_data(Head(records)) \o Encoded(Tail(records))

\* the number of records in the blocks ahead of the call at i
RECURSIVE CountsBefore(_, _)
CountsBefore(f, i) ==
  IF i <= 1 THEN 0
  ELSE (IF f.calls[i - 1].call = "write_long" THEN BlockCountAt(f, i - 1) ELSE 0)
       + CountsBefore(f, i - 1)

\* C17: every block in the sink has a record count of at least 1, and its
\* payload is exactly that many records: the ones accepted after those of the
\* blocks before it, in order.
C17_BlockCounts ==
  \A i \in CallsNamed(fo, "write_long") :
    /\ BlockCountAt(fo, i) >= 1
    /\ CountsBefore(fo, i) + BlockCountAt(fo, i) <= Len(accepted)
    /\ i + 1 <= Len(fo.calls)
    /\ fo.calls[i + 1].bytes =
         block_writer(Encoded(SubSeq(accepted, CountsBefore(fo, i) + 1,
                                     CountsBefore(fo, i) + BlockCountAt(fo, i))))

C17_Witness ==
  /\ fo.state = "released"
  /\ BlockCount(fo) = 2
  /\ \E i, j \in CallsNamed(fo, "write_long") :
       i < j /\ BlockCountAt(fo, i) = 2 /\ BlockCountAt(fo, j) = 1

\* C18: an adapter with a pending un-read holds a non-empty lookback buffer,
\* and no read has failed the assertion of the replay branch.
C18_SaughtHasBuffer ==
  /\ seekable._saught => seekable._buffer # <<>>
  /\ sk_out.op = "read" => ~sk_out.raised

C18_Witness ==
  /\ seekable._saught
  /\ sk_out.op = "read"
  /\ ~sk_out.forward
  /\ Len(seekable._buffer) < sync_size - 7
  /\ seekable._reader = Len(stream)

\* ---- the client's call log, read from its start with the set of sources
\* open so far: every open finds none open, every release finds its source open
RECURSIVE OneAtATime(_, _)
OneAtATime(log, open) ==
  IF log = <<>> THEN TRUE
  ELSE IF Head(log)[1] = "open"
       THEN open = {} /\ OneAtATime(Tail(log), {Head(log)[2]})
       ELSE Head(log)[2] \in open /\ OneAtATime(Tail(log), open \ {Head(log)[2]})

\* the sources open now
OpenNow == {p \in 1..Len(hdfs.files) : Opens(p) > Releases(p)}

\* C19: at no point of the client's call log is more than one source open: a
\* source is opened only when none is open; while the generator waits inside
\* a part, that part's source is the one open and the bytes its adapter holds
\* are the bytes of that part just ahead of the adapter's position.
C19_OneSourceAtATime ==
  /\ OneAtATime(client, {})
  /\ gen.state = "suspended"
     => (/\ OpenNow = {reader._paths[gen.at]}
         /\ gen.s._reader <= Len(hdfs.files[reader._paths[gen.at]])
         /\ IsSuffix(gen.s._buffer,
                     Take(hdfs.files[reader._paths[gen.at]], gen.s._reader)))

C19_Witness ==
  /\ gen.state = "suspended"
  /\ gen.at = 3
  /\ r_out.enters = 1
  /\ gen.s._buffer # <<>>
  /\ Len(yielded) >= 3
  /\ OpenNow = {reader._paths[3]}

=============================================================================
